---- MODULE Spec2Model ----
(***************************************************************************)
(* Model of the Fire-Flow contract loop: the Hatchet workflow              *)
(* ContractLoopWorkflow (fire-flow/workflows/contract_loop.py) and its     *)
(* client (fire-flow/workflows/client.py).                                 *)
(*                                                                         *)
(* Python dicts are records; dict.get(k, d) is Get(d_, k, d).  JSON        *)
(* scalars coming from tools are string tokens ("true", "false", "str").   *)
(* A step output that does not exist yet, and None, is the empty set; a    *)
(* present value v is {v}.                                                 *)
(***************************************************************************)
EXTENDS Integers, Sequences, FiniteSets, TLC

\* ---------------------------------------------------------------- bounds
\* number of workflow runs (client calls plus spawned retries) explored
MaxRuns == 3
\* the same, where the full sets of tool behaviours are explored
MaxRunsFull == 1
\* number of workflow runs that exist at a time where finished runs are
\* reclaimed
MaxLive == 2
\* largest max_attempts a caller passes
MaxMax == 3

\* ------------------------------------------------------ program constants
DefaultMaxAttempts == 5
\* a text is the sequence of the parts that "\n".join puts together
InitialFeedback == <<[text |-> "Initial generation"]>>
EscalateMessage == "AI failed to satisfy contract after max attempts. FIX THE PROMPT OR CONTRACT, NOT THE NUSHELL."

\* ---------------------------------------------------------------- helpers
\* {**base, **over}: the keys of over win
Merge(base, over) == over @@ base
Get(d, k, default) == IF k \in DOMAIN d THEN d[k] ELSE default
Only(s) == CHOOSE v \in s : TRUE
IsDict(v) == "nondict" \notin DOMAIN v
\* Python truthiness of a JSON scalar token
Truthy(t) == t \in {"true", "str"}

\* ------------------------------------------------------------ tool output
\* json.loads of a tool's stdout text.  Texts are named by tokens; the
\* table gives the parsed value, [notjson |-> TRUE] standing for
\* json.JSONDecodeError.
JsonLoads(text) ==
  CASE text = "g_ok"      -> [success |-> "true"]
    [] text = "g_fail"    -> [success |-> "false", error |-> "gen error"]
    [] text = "g_nosucc"  -> [note |-> "no success key"]
    [] text = "g_attempt" -> [success |-> "true", attempt |-> 7]
    [] text = "g_tool"    -> [success |-> "true",
                              tool_path |-> [dir |-> 0, file |-> "elsewhere.nu"]]
    [] text = "x_ok"      -> [success |-> "true"]
    [] text = "x_fail"    -> [success |-> "false", error |-> "tool crashed"]
    [] text = "v_true"    -> [success |-> "true", data |-> [valid |-> "true"]]
    [] text = "v_false_a" -> [success |-> "true", data |-> [valid |-> "false", errors |-> "A"]]
    [] text = "v_false_b" -> [success |-> "true", data |-> [valid |-> "false", errors |-> "B"]]
    [] text = "v_noflag"  -> [success |-> "true", data |-> [errors |-> "A"]]
    [] text = "v_nodata"  -> [success |-> "true"]
    [] text = "v_str"     -> [success |-> "true", data |-> [valid |-> "str"]]
    [] text = "v_datanull" -> [success |-> "true", data |-> [nondict |-> "null"]]
    [] text = "list"      -> [nondict |-> "list"]
    [] OTHER              -> [notjson |-> TRUE]

\* run_nu_script looking at stdout before the exit status: JSON on stdout is
\* returned whatever the process exited with
run_nu_script_parse_first(proc) ==
  IF proc.kind = "timeout"
    THEN [raised |-> "TimeoutExpired"]
    ELSE LET parsed == JsonLoads(proc.stdout) IN
         IF "notjson" \notin DOMAIN parsed
           THEN [ret |-> parsed]
         ELSE IF proc.code # 0
           THEN [ret |-> [success |-> "false",
                          error |-> IF proc.stderr # "" THEN proc.stderr
                                    ELSE "Exit code: " \o ToString(proc.code),
                          stdout |-> proc.stdout]]
           ELSE [ret |-> [success |-> "true", raw_output |-> proc.stdout]]

\* run_nu_script wrapping the parsed JSON of a zero exit instead of
\* returning it as it is
run_nu_script_wrapped(proc) ==
  IF proc.kind = "timeout"
    THEN [raised |-> "TimeoutExpired"]
    ELSE IF proc.code # 0
      THEN [ret |-> [success |-> "false",
                     error |-> IF proc.stderr # "" THEN proc.stderr
                               ELSE "Exit code: " \o ToString(proc.code),
                     stdout |-> proc.stdout]]
      ELSE LET parsed == JsonLoads(proc.stdout) IN
           IF "notjson" \in DOMAIN parsed
             THEN [ret |-> [success |-> "true", raw_output |-> proc.stdout]]
             ELSE [ret |-> [success |-> "true", data |-> parsed]]

\* run_nu_script: proc is what subprocess.run did,
\*   [kind |-> "timeout"]                      subprocess.TimeoutExpired
\*   [kind |-> "exit", code, stderr, stdout]   the completed process
\* The value is [raised |-> exception] when the call raises, else
\* [ret |-> dict].
run_nu_script(proc) ==
  IF proc.kind = "timeout"
    THEN [raised |-> "TimeoutExpired"]
    ELSE IF proc.code # 0
      THEN [ret |-> [success |-> "false",
                     error |-> IF proc.stderr # "" THEN proc.stderr
                               ELSE "Exit code: " \o ToString(proc.code),
                     stdout |-> proc.stdout]]
      ELSE LET parsed == JsonLoads(proc.stdout) IN
           IF "notjson" \in DOMAIN parsed
             THEN [ret |-> [success |-> "true", raw_output |-> proc.stdout]]
             ELSE [ret |-> parsed]

Exit(code, stderr, stdout) ==
  [kind |-> "exit", code |-> code, stderr |-> stderr, stdout |-> stdout]

\* What the generator, executor and validator processes can do.  The Core
\* sets are the behaviours explored along whole retry chains; the full sets
\* add the rarer shapes of output and are explored on single runs.
CoreGenProcs ==
  {Exit(1, "boom", ""), Exit(0, "", "g_ok")}
CoreExecProcs ==
  {Exit(1, "boom", ""), Exit(0, "", "x_ok")}
CoreValProcs ==
  {Exit(1, "boom", "")}
  \cup {Exit(0, "", t) : t \in {"v_true", "v_false_a", "v_false_b"}}
CoreOutputWrites == {{}, {"out1"}}
GenProcs ==
  {[kind |-> "timeout"], Exit(1, "boom", ""), Exit(1, "", "")}
  \cup {Exit(0, "", t) : t \in {"g_ok", "g_fail", "g_nosucc", "g_attempt",
                                "g_tool", "plain text", "list"}}
ExecProcs ==
  {[kind |-> "timeout"], Exit(1, "boom", "")}
  \cup {Exit(0, "", t) : t \in {"x_ok", "x_fail"}}
ValProcs ==
  {[kind |-> "timeout"], Exit(1, "boom", ""), Exit(1, "", "partial")}
  \cup {Exit(0, "", t) : t \in {"v_true", "v_false_a", "v_false_b", "v_noflag",
                                "v_nodata", "v_str", "v_datanull", "list",
                                "plain text"}}
\* what the executed tool leaves in output.json: nothing, or a content
OutputWrites == {{}, {"out1"}, {"out2"}}

\* ------------------------------------------------------------------ state
VARIABLES
  runs,    \* the workflow runs Hatchet holds, by workflow_run_id
  fs,      \* the directories mkdtemp created that still exist: fs[d] is
           \* the content of d/output.json ({} when the file is missing)
  calls,   \* the client calls made so far and what each returned
  probe    \* the argument and the value of a function applied on its own
           \* (<<>> in the specifications of the workflow)

vars == <<runs, fs, calls, probe>>

RunIds == DOMAIN runs
\* an identifier no element of f has: what Hatchet gives a new run and
\* mkdtemp a new directory
Fresh(f) ==
  CHOOSE n \in 1..(Cardinality(DOMAIN f) + 1) :
    n \notin DOMAIN f /\ \A k \in 1..(n - 1) : k \in DOMAIN f
\* f without the element x
Without(f, x) == [y \in DOMAIN f \ {x} |-> f[y]]
\* ctx.step_output(name) of run r
StepOutput(r, name) == runs[r].out[name]
\* Path(work_dir) / name
PathJoin(dir, name) == [dir |-> dir, file |-> name]

\* a fresh workflow run: `input` is ctx.workflow_input(); call records
\* which client call started the chain the run belongs to
\* The other fields are bookkeeping: parent is the run that spawned it (0
\* for a client's run), gen_request the request its generate step sent,
\* wrote what its executor process wrote to output.json, read what its
\* collect_feedback step found in the file it opened, spawned the number
\* of workflows it spawned, tool[step] what run_nu_script gave the step.
NewRun(input, call, parent) ==
  [input |-> input, pc |-> "init", out |-> <<>>, error |-> "none",
   call |-> call, parent |-> parent, gen_request |-> {},
   wrote |-> {}, read |-> {}, spawned |-> 0, tool |-> <<>>]

\* a step of run r returned `value`; `next` is the step that follows
Returned(r, step, value, next) ==
  [runs EXCEPT ![r].out = (step :> value) @@ @, ![r].pc = next]
\* a step of run r raised: Hatchet fails the run, later steps never start
Raised(r, exception) ==
  [runs EXCEPT ![r].pc = "failed", ![r].error = exception]

\* ------------------------------------------------------------ client.py
Contracts == {"contracts/echo.yaml"}
Tasks == {"Generate an echo tool"}
InputJsons == {"{}", "{not json"}
ClientMaxAttempts == (-1..MaxMax) \cup {DefaultMaxAttempts}

\* the payload run_contract_loop_async and trigger_contract_loop submit
ClientPayload(contract, task, input_json, max_attempts) ==
  [contract |-> contract, task |-> task, input_json |-> input_json,
   max_attempts |-> max_attempts]

\* run_contract_loop / run_contract_loop_async up to the await: submit the
\* workflow run
RunContractLoopWith(maxRuns, maxCalls, inputJsons, maxAttempts) ==
  /\ Len(calls) < maxCalls
  /\ Cardinality(RunIds) < maxRuns
  /\ \E contract \in Contracts, task \in Tasks, input_json \in inputJsons,
        max_attempts \in maxAttempts :
       LET payload == ClientPayload(contract, task, input_json, max_attempts)
       IN /\ runs' = (Fresh(runs) :> NewRun(payload, Len(calls) + 1, 0)) @@ runs
          /\ calls' = Append(calls, [run |-> Fresh(runs), payload |-> payload,
                                     returned |-> {}])
  /\ UNCHANGED <<fs, probe>>

\* the same with every input_json and max_attempts the model has
RunContractLoop(maxRuns, maxCalls) ==
  RunContractLoopWith(maxRuns, maxCalls, InputJsons, ClientMaxAttempts)

\* `await workflow_run.result()`: the client gets the outcome of the run it
\* submitted once that run has finished
AwaitResult(c) ==
  /\ calls[c].returned = {}
  /\ runs[calls[c].run].pc \in {"done", "failed"}
  /\ calls' = [calls EXCEPT ![c].returned =
                 IF runs[calls[c].run].pc = "failed"
                   THEN {[raised |-> runs[calls[c].run].error]}
                   ELSE {StepOutput(calls[c].run, "retry_or_complete")}]
  /\ UNCHANGED <<runs, fs, probe>>

\* ------------------------------------------------- ContractLoopWorkflow
\* init as it would be if a retry resumed from the _retry_state of its
\* input: the counter, the feedback and the workspace of the failed attempt
init_resume(trace_id, work_dir, workflow_input) ==
  LET state == Get(workflow_input, "_retry_state",
                   [attempt |-> 0, feedback |-> {InitialFeedback},
                    trace_id |-> trace_id, work_dir |-> work_dir])
  IN [trace_id |-> state["trace_id"],
      work_dir |-> state["work_dir"],
      attempt |-> state["attempt"],
      max_attempts |-> Get(workflow_input, "max_attempts", DefaultMaxAttempts),
      feedback |-> Only(state["feedback"])]

\* init with another ceiling for an input that has no max_attempts
init_default3(trace_id, work_dir, workflow_input) ==
  [trace_id |-> trace_id,
   work_dir |-> work_dir,
   attempt |-> 0,
   max_attempts |-> Get(workflow_input, "max_attempts", 3),
   feedback |-> InitialFeedback]

\* init: the step's return value for a run with id trace_id whose mkdtemp
\* gave work_dir
init(trace_id, work_dir, workflow_input) ==
  [trace_id |-> trace_id,
   work_dir |-> work_dir,
   attempt |-> 0,
   max_attempts |-> Get(workflow_input, "max_attempts", DefaultMaxAttempts),
   feedback |-> InitialFeedback]

\* init taking one fixed scratch directory instead of a mkdtemp one
Init_step_shared_dir(r) ==
  /\ runs[r].pc = "init"
  /\ \/ /\ fs' = IF 1 \in DOMAIN fs THEN fs ELSE (1 :> {}) @@ fs
        /\ runs' = Returned(r, "init", init(r, 1, runs[r].input), "generate")
     \/ /\ runs' = Raised(r, "OSError")
        /\ UNCHANGED fs
  /\ UNCHANGED <<calls, probe>>

\* init noting a failed mkdtemp and going on without a directory
Init_step_silent(r) ==
  /\ runs[r].pc = "init"
  /\ \/ /\ fs' = (Fresh(fs) :> {}) @@ fs
        /\ runs' = Returned(r, "init", init(r, Fresh(fs), runs[r].input),
                            "generate")
     \/ /\ runs' = [Returned(r, "init", init(r, 0, runs[r].input), "generate")
                     EXCEPT ![r].error = "OSError"]
        /\ UNCHANGED fs
  /\ UNCHANGED <<calls, probe>>

\* tempfile.mkdtemp either creates a directory no one else has or raises
Init_step(r) ==
  /\ runs[r].pc = "init"
  /\ \/ /\ fs' = (Fresh(fs) :> {}) @@ fs
        /\ runs' = Returned(r, "init", init(r, Fresh(fs), runs[r].input),
                            "generate")
     \/ /\ runs' = Raised(r, "OSError")
        /\ UNCHANGED fs
  /\ UNCHANGED <<calls, probe>>

\* generate: the request the step sends to generate.nu
generate_input(init_data, workflow_input) ==
  [contract_path |-> workflow_input["contract"],
   task |-> workflow_input["task"],
   feedback |-> init_data["feedback"],
   attempt |-> <<init_data["attempt"] + 1, init_data["max_attempts"]>>,
   output_path |-> PathJoin(init_data["work_dir"], "tool.nu"),
   context |-> [trace_id |-> init_data["trace_id"]]]

\* generate taking a result without a success key for a success
generate_lenient(init_data, tool) ==
  IF "raised" \in DOMAIN tool THEN tool
  ELSE IF ~IsDict(tool.ret) THEN [raised |-> "AttributeError"]
  ELSE IF ~Truthy(Get(tool.ret, "success", "true"))
    THEN [raised |-> "Generation failed"]
  ELSE [ret |-> Merge([tool_path |-> PathJoin(init_data["work_dir"], "tool.nu"),
                       attempt |-> init_data["attempt"] + 1],
                      tool.ret)]

\* generate: the step's outcome when run_nu_script gave `tool`
generate(init_data, tool) ==
  IF "raised" \in DOMAIN tool THEN tool
  ELSE IF ~IsDict(tool.ret) THEN [raised |-> "AttributeError"]
  ELSE IF ~Truthy(Get(tool.ret, "success", "false"))
    THEN [raised |-> "Generation failed"]
  ELSE [ret |-> Merge([tool_path |-> PathJoin(init_data["work_dir"], "tool.nu"),
                       attempt |-> init_data["attempt"] + 1],
                      tool.ret)]

Generate_step(r, procs) ==
  /\ runs[r].pc = "generate"
  /\ \E proc \in procs :
       LET init_data == StepOutput(r, "init")
           res == generate(init_data, run_nu_script(proc))
           sent == [runs EXCEPT ![r].gen_request =
                      {generate_input(init_data, runs[r].input)},
                                ![r].tool = ("generate" :> run_nu_script(proc)) @@ @]
       IN runs' = IF "raised" \in DOMAIN res
                    THEN [sent EXCEPT ![r].pc = "failed",
                                      ![r].error = res.raised]
                    ELSE [sent EXCEPT ![r].out = ("generate" :> res.ret) @@ @,
                                      ![r].pc = "execute"]
  /\ UNCHANGED <<fs, calls, probe>>

\* json.loads(workflow_input.get("input_json", "{}")) succeeds; the one
\* text that parses is "{}", which gives the empty dict
InputJsonParses(workflow_input) ==
  Get(workflow_input, "input_json", "{}") = "{}"

\* execute: the request the step sends to run-tool.nu
execute_input(init_data, gen_data, workflow_input) ==
  [tool_path |-> gen_data["tool_path"],
   tool_input |-> <<>>,
   output_path |-> PathJoin(init_data["work_dir"], "output.json"),
   logs_path |-> PathJoin(init_data["work_dir"], "logs.json"),
   context |-> [trace_id |-> init_data["trace_id"]]]

\* execute giving up when the executor reports failure
execute_strict(init_data, workflow_input, tool) ==
  IF ~InputJsonParses(workflow_input) THEN [raised |-> "JSONDecodeError"]
  ELSE IF "raised" \in DOMAIN tool THEN tool
  ELSE IF IsDict(tool.ret) /\ ~Truthy(Get(tool.ret, "success", "false"))
    THEN [raised |-> "Execution failed"]
  ELSE [ret |-> [output_path |-> PathJoin(init_data["work_dir"], "output.json"),
                 logs_path |-> PathJoin(init_data["work_dir"], "logs.json"),
                 execution_result |-> tool.ret]]

\* execute: the step's outcome when run_nu_script gave `tool`
execute(init_data, workflow_input, tool) ==
  IF ~InputJsonParses(workflow_input) THEN [raised |-> "JSONDecodeError"]
  ELSE IF "raised" \in DOMAIN tool THEN tool
  ELSE [ret |-> [output_path |-> PathJoin(init_data["work_dir"], "output.json"),
                 logs_path |-> PathJoin(init_data["work_dir"], "logs.json"),
                 execution_result |-> tool.ret]]

\* The tool process, when it is started, may write output.json at the
\* output_path of the request (also when it then fails or is timed out).
Execute_step(r, procs, writes) ==
  /\ runs[r].pc = "execute"
  /\ LET init_data == StepOutput(r, "init")
         dir == init_data["work_dir"]
     IN IF ~InputJsonParses(runs[r].input)
          THEN /\ runs' = Raised(r, "JSONDecodeError")
               /\ UNCHANGED fs
          ELSE \E proc \in procs, write \in writes :
                 LET res == execute(init_data, runs[r].input, run_nu_script(proc))
                     ran == [runs EXCEPT ![r].wrote = write,
                                         ![r].tool = ("execute" :> run_nu_script(proc)) @@ @]
                 IN /\ fs' = IF write = {} THEN fs ELSE [fs EXCEPT ![dir] = write]
                    /\ runs' = IF "raised" \in DOMAIN res
                                 THEN [ran EXCEPT ![r].pc = "failed",
                                                  ![r].error = res.raised]
                                 ELSE [ran EXCEPT
                                         ![r].out = ("execute" :> res.ret) @@ @,
                                         ![r].pc = "validate"]
  /\ UNCHANGED <<calls, probe>>

\* validate: the request the step sends to validate.nu
validate_input(init_data, exec_data, workflow_input) ==
  [contract_path |-> workflow_input["contract"],
   output_path |-> exec_data["output_path"],
   server |-> "local",
   context |-> [trace_id |-> init_data["trace_id"]]]

\* validate taking a missing valid flag for true (fail-open)
validate_open(tool) ==
  IF "raised" \in DOMAIN tool THEN tool
  ELSE IF ~IsDict(tool.ret) THEN [raised |-> "AttributeError"]
  ELSE IF ~IsDict(Get(tool.ret, "data", <<>>)) THEN [raised |-> "AttributeError"]
  ELSE [ret |-> [valid |-> Get(Get(tool.ret, "data", <<>>), "valid", "true"),
                 validation_result |-> tool.ret]]

\* validate: the step's outcome when run_nu_script gave `tool`
validate(tool) ==
  IF "raised" \in DOMAIN tool THEN tool
  ELSE IF ~IsDict(tool.ret) THEN [raised |-> "AttributeError"]
  ELSE IF ~IsDict(Get(tool.ret, "data", <<>>)) THEN [raised |-> "AttributeError"]
  ELSE [ret |-> [valid |-> Get(Get(tool.ret, "data", <<>>), "valid", "false"),
                 validation_result |-> tool.ret]]

\* validate declared with generate as its parent step: it can start as soon
\* as generate has returned
Validate_step_early(r, procs) ==
  /\ runs[r].pc \in {"execute", "validate"}
  /\ \E proc \in procs :
       LET res == validate(run_nu_script(proc))
           ran == [runs EXCEPT ![r].tool = ("validate" :> run_nu_script(proc)) @@ @]
       IN runs' = IF "raised" \in DOMAIN res
                    THEN [ran EXCEPT ![r].pc = "failed", ![r].error = res.raised]
                    ELSE [ran EXCEPT ![r].out = ("validate" :> res.ret) @@ @,
                                     ![r].pc = "decide"]
  /\ UNCHANGED <<fs, calls, probe>>

Validate_step(r, procs) ==
  /\ runs[r].pc = "validate"
  /\ \E proc \in procs :
       LET res == validate(run_nu_script(proc))
           ran == [runs EXCEPT ![r].tool = ("validate" :> run_nu_script(proc)) @@ @]
       IN runs' = IF "raised" \in DOMAIN res
                    THEN [ran EXCEPT ![r].pc = "failed", ![r].error = res.raised]
                    ELSE [ran EXCEPT ![r].out = ("validate" :> res.ret) @@ @,
                                     ![r].pc = "decide"]
  /\ UNCHANGED <<fs, calls, probe>>

\* decide with the ceiling test off by one (> for >=)
decide_gt(init_data, gen_data, val_data) ==
  IF Truthy(val_data["valid"])
    THEN [decision |-> "success", attempts_made |-> gen_data["attempt"]]
  ELSE IF gen_data["attempt"] > init_data["max_attempts"]
    THEN [decision |-> "escalate", attempts_made |-> gen_data["attempt"],
          last_error |-> val_data["validation_result"]]
  ELSE [decision |-> "retry", attempt |-> gen_data["attempt"]]

\* decide: the step's return value
decide(init_data, gen_data, val_data) ==
  IF Truthy(val_data["valid"])
    THEN [decision |-> "success", attempts_made |-> gen_data["attempt"]]
  ELSE IF gen_data["attempt"] >= init_data["max_attempts"]
    THEN [decision |-> "escalate", attempts_made |-> gen_data["attempt"],
          last_error |-> val_data["validation_result"]]
  ELSE [decision |-> "retry", attempt |-> gen_data["attempt"]]

Decide_step(r) ==
  /\ runs[r].pc = "decide"
  /\ runs' = Returned(r, "decide",
                      decide(StepOutput(r, "init"), StepOutput(r, "generate"),
                             StepOutput(r, "validate")),
                      "collect_feedback")
  /\ UNCHANGED <<fs, calls, probe>>

\* list.insert(i, x) with a 0-based index i <= len
ListInsert(list, i, x) ==
  SubSeq(list, 1, i) \o <<x>> \o SubSeq(list, i + 1, Len(list))

\* collect_feedback inserting the output one place too early (insert(3, ..))
collect_feedback_insert3(decide_data, init_data, gen_data, val_data, file) ==
  IF decide_data["decision"] # "retry" THEN [feedback |-> {}]
  ELSE LET feedback_parts ==
             <<[text |-> "ATTEMPT FAILED.", attempt |-> gen_data["attempt"],
                max_attempts |-> init_data["max_attempts"]],
               [text |-> ""],
               [text |-> "CONTRACT ERRORS:"],
               [text |-> "json.dumps", of |-> val_data["validation_result"]],
               [text |-> ""],
               [text |-> "FIX THE NUSHELL SCRIPT TO SATISFY THE CONTRACT."]>>
       IN [feedback |->
             {IF file = {} THEN feedback_parts
              ELSE ListInsert(feedback_parts, 3,
                              [text |-> "OUTPUT PRODUCED:", content |-> Only(file)])}]

\* collect_feedback giving no feedback when the output file cannot be read
collect_feedback_needs_file(decide_data, init_data, gen_data, val_data, file) ==
  IF decide_data["decision"] # "retry" \/ file = {} THEN [feedback |-> {}]
  ELSE [feedback |->
          {<<[text |-> "ATTEMPT FAILED.", attempt |-> gen_data["attempt"],
              max_attempts |-> init_data["max_attempts"]],
             [text |-> ""],
             [text |-> "CONTRACT ERRORS:"],
             [text |-> "json.dumps", of |-> val_data["validation_result"]],
             [text |-> "OUTPUT PRODUCED:", content |-> Only(file)],
             [text |-> ""],
             [text |-> "FIX THE NUSHELL SCRIPT TO SATISFY THE CONTRACT."]>>}]

\* collect_feedback: the step's return value; `file` is what open/read of
\* exec_data["output_path"] gives: {} when it raises, else {content}
collect_feedback(decide_data, init_data, gen_data, val_data, file) ==
  IF decide_data["decision"] # "retry" THEN [feedback |-> {}]
  ELSE LET feedback_parts ==
             <<[text |-> "ATTEMPT FAILED.", attempt |-> gen_data["attempt"],
                max_attempts |-> init_data["max_attempts"]],
               [text |-> ""],
               [text |-> "CONTRACT ERRORS:"],
               [text |-> "json.dumps", of |-> val_data["validation_result"]],
               [text |-> ""],
               [text |-> "FIX THE NUSHELL SCRIPT TO SATISFY THE CONTRACT."]>>
       IN [feedback |->
             {IF file = {} THEN feedback_parts
              ELSE ListInsert(feedback_parts, 4,
                              [text |-> "OUTPUT PRODUCED:", content |-> Only(file)])}]

\* the content of the file at `path`, {} when it cannot be opened
ReadFile(path) ==
  IF path.dir \in DOMAIN fs /\ path.file = "output.json" THEN fs[path.dir] ELSE {}

CollectFeedback_step(r) ==
  /\ runs[r].pc = "collect_feedback"
  /\ LET decide_data == StepOutput(r, "decide")
         file == ReadFile(StepOutput(r, "execute")["output_path"])
         res == collect_feedback(decide_data, StepOutput(r, "init"),
                                 StepOutput(r, "generate"),
                                 StepOutput(r, "validate"), file)
         done == Returned(r, "collect_feedback", res, "retry_or_complete")
     IN runs' = IF decide_data["decision"] = "retry"
                  THEN [done EXCEPT ![r].read = {file}]
                  ELSE done
  /\ UNCHANGED <<fs, calls, probe>>

\* retry_or_complete without its escalate branch: an escalate decision
\* falls through to the answer of a retry
retry_or_complete_no_escalate(decide_data, exec_data, gen_data) ==
  IF decide_data["decision"] = "success"
    THEN [status |-> "success",
          output_path |-> exec_data["output_path"],
          tool_path |-> gen_data["tool_path"],
          attempts |-> decide_data["attempts_made"]]
  ELSE [status |-> "retrying", attempt |-> gen_data["attempt"]]

\* retry_or_complete: the step's return value
retry_or_complete(decide_data, exec_data, gen_data) ==
  IF decide_data["decision"] = "success"
    THEN [status |-> "success",
          output_path |-> exec_data["output_path"],
          tool_path |-> gen_data["tool_path"],
          attempts |-> decide_data["attempts_made"]]
  ELSE IF decide_data["decision"] = "escalate"
    THEN [status |-> "escalated",
          message |-> EscalateMessage,
          attempts |-> decide_data["attempts_made"],
          last_error |-> Get(decide_data, "last_error", <<>>)]
  ELSE [status |-> "retrying", attempt |-> gen_data["attempt"]]

\* retry_or_complete: the input of the workflow it spawns on a retry
retry_payload(workflow_input, feedback_data, init_data, gen_data) ==
  Merge(workflow_input,
        "_retry_state" :> [attempt |-> gen_data["attempt"],
                           feedback |-> feedback_data["feedback"],
                           trace_id |-> init_data["trace_id"],
                           work_dir |-> init_data["work_dir"]])

\* retry_or_complete returning for an escalate decision only after the
\* spawn: a workflow is spawned for every decision but success
RetryOrComplete_step_respawn(r, maxRuns) ==
  /\ runs[r].pc = "retry_or_complete"
  /\ LET decide_data == StepOutput(r, "decide")
         res == retry_or_complete(decide_data, StepOutput(r, "execute"),
                                  StepOutput(r, "generate"))
         done == Returned(r, "retry_or_complete", res, "done")
     IN IF decide_data["decision"] = "success"
          THEN runs' = done
          ELSE /\ Cardinality(RunIds) < maxRuns
               /\ runs' = (Fresh(runs) :>
                             NewRun(retry_payload(runs[r].input,
                                                  StepOutput(r, "collect_feedback"),
                                                  StepOutput(r, "init"),
                                                  StepOutput(r, "generate")),
                                    runs[r].call, r))
                           @@ [done EXCEPT ![r].spawned = @ + 1]
  /\ UNCHANGED <<fs, calls, probe>>

RetryOrComplete_step(r, maxRuns) ==
  /\ runs[r].pc = "retry_or_complete"
  /\ LET decide_data == StepOutput(r, "decide")
         res == retry_or_complete(decide_data, StepOutput(r, "execute"),
                                  StepOutput(r, "generate"))
         done == Returned(r, "retry_or_complete", res, "done")
     IN IF decide_data["decision"] \in {"success", "escalate"}
          THEN runs' = done
          ELSE /\ Cardinality(RunIds) < maxRuns
               /\ runs' = (Fresh(runs) :>
                             NewRun(retry_payload(runs[r].input,
                                                  StepOutput(r, "collect_feedback"),
                                                  StepOutput(r, "init"),
                                                  StepOutput(r, "generate")),
                                    runs[r].call, r))
                           @@ [done EXCEPT ![r].spawned = @ + 1]
  /\ UNCHANGED <<fs, calls, probe>>

Init ==
  /\ runs = <<>>
  /\ fs = <<>>
  /\ calls = <<>>
  /\ probe = <<>>

\* the steps of the workflow runs, the tools behaving as in the given sets
Steps(maxRuns, genProcs, execProcs, writes, valProcs) ==
  \/ \E r \in RunIds : Init_step(r)
  \/ \E r \in RunIds : Generate_step(r, genProcs)
  \/ \E r \in RunIds : Execute_step(r, execProcs, writes)
  \/ \E r \in RunIds : Validate_step(r, valProcs)
  \/ \E r \in RunIds : Decide_step(r)
  \/ \E r \in RunIds : CollectFeedback_step(r)
  \/ \E r \in RunIds : RetryOrComplete_step(r, maxRuns)

\* one client call and the chain of runs it starts
Next ==
  \/ RunContractLoop(MaxRuns, 1)
  \/ \E c \in 1..Len(calls) : AwaitResult(c)
  \/ Steps(MaxRuns, CoreGenProcs, CoreExecProcs, CoreOutputWrites, CoreValProcs)

Spec == Init /\ [][Next]_vars

\* one client call, every tool behaviour
NextFull ==
  \/ RunContractLoop(MaxRunsFull, 1)
  \/ \E c \in 1..Len(calls) : AwaitResult(c)
  \/ Steps(MaxRunsFull, GenProcs, ExecProcs, OutputWrites, ValProcs)

FullSpec == Init /\ [][NextFull]_vars

\* The workflow deletes nothing: a finished run stays with Hatchet until
\* its retention ends and its scratch directory until the environment
\* clears it.  Reclaim is that: run r has finished, its client (if it has
\* one) has its result, and the run and its work_dir go away.
Reclaim(r) ==
  /\ runs[r].pc \in {"done", "failed"}
  /\ \A c \in 1..Len(calls) : calls[c].run = r => calls[c].returned # {}
  /\ runs' = Without(runs, r)
  /\ fs' = IF "init" \in DOMAIN runs[r].out
             /\ StepOutput(r, "init")["work_dir"] \in DOMAIN fs
             THEN Without(fs, StepOutput(r, "init")["work_dir"])
             ELSE fs
  /\ UNCHANGED <<calls, probe>>

\* one client call and its chain, finished runs being reclaimed: at most
\* MaxLive runs exist at a time, any number one after the other
NextReclaim ==
  \/ RunContractLoop(MaxLive, 1)
  \/ \E c \in 1..Len(calls) : AwaitResult(c)
  \/ Steps(MaxLive, CoreGenProcs, CoreExecProcs, CoreOutputWrites, CoreValProcs)
  \/ \E r \in RunIds : Reclaim(r)

\* Hatchet runs every step whose parent step has finished, a client that
\* awaits a finished run gets its result, and finished runs are reclaimed
FairSpec ==
  /\ Init /\ [][NextReclaim]_vars
  /\ WF_vars(Steps(MaxLive, CoreGenProcs, CoreExecProcs, CoreOutputWrites,
                   CoreValProcs))
  /\ WF_vars(\E c \in 1..Len(calls) : AwaitResult(c))
  /\ WF_vars(\E r \in RunIds : Reclaim(r))

\* largest attempt number and max_attempts a step is applied to on its own
MaxProbe == 4

\* ------------------------------------------------------ concurrent runs
\* number of client calls made side by side, and of runs they may start
MaxConcCalls == 2
MaxConcRuns == 2

ConcMaxAttempts == {1, 2}
ConcGenProcs == {Exit(0, "", "g_ok")}
ConcExecProcs == {Exit(0, "", "x_ok")}
ConcOutputWrites == {{"out1"}, {"out2"}}
ConcValProcs == {Exit(0, "", t) : t \in {"v_true", "v_false_a"}}

\* several client calls, the steps of their runs interleaved in any order
NextConc ==
  \/ RunContractLoopWith(MaxConcRuns, MaxConcCalls, {"{}"}, ConcMaxAttempts)
  \/ \E c \in 1..Len(calls) : AwaitResult(c)
  \/ Steps(MaxConcRuns, ConcGenProcs, ConcExecProcs, ConcOutputWrites, ConcValProcs)

ConcSpec == Init /\ [][NextConc]_vars

\* ------------------------------------ workflow input, built on its own
\* the defaults of the client functions' parameters
ClientDefaultInputJson == "{}"
ClientDefaultMaxAttempts == 5
\* an optional argument: {} when the caller leaves it out, else {value}
Arg(given, default) == IF given = {} THEN default ELSE Only(given)

\* the workflow input run_contract_loop, run_contract_loop_async and
\* trigger_contract_loop submit (run_contract_loop hands its arguments to
\* run_contract_loop_async)
client_payload(contract, task, input_json, max_attempts) ==
  ClientPayload(contract, task, Arg(input_json, ClientDefaultInputJson),
                Arg(max_attempts, ClientDefaultMaxAttempts))
\* the workflow input of a run started by a contract:run event: the
\* payload of the event as it is, with the keys its sender gave
event_payload(contract, task, input_json, max_attempts) ==
  [contract |-> contract, task |-> task]
  @@ (IF input_json = {} THEN <<>> ELSE [input_json |-> Only(input_json)])
  @@ (IF max_attempts = {} THEN <<>> ELSE [max_attempts |-> Only(max_attempts)])

ClientFunctions ==
  {"run_contract_loop", "run_contract_loop_async", "trigger_contract_loop"}
InputCalls ==
  [via : ClientFunctions \cup {"contract:run"},
   contract : Contracts, task : Tasks,
   input_json : {{}} \cup {{t} : t \in InputJsons},
   max_attempts : {{}} \cup {{n} : n \in ClientMaxAttempts}]

InitInput ==
  /\ runs = <<>>
  /\ fs = <<>>
  /\ calls = <<>>
  /\ probe \in [in : InputCalls, out : {{}}]

\* the workflow input the call gives the run, and what init makes of it
ApplyInput ==
  /\ probe.out = {}
  /\ LET payload ==
           IF probe.in.via \in ClientFunctions
             THEN client_payload(probe.in.contract, probe.in.task,
                                 probe.in.input_json, probe.in.max_attempts)
             ELSE event_payload(probe.in.contract, probe.in.task,
                                probe.in.input_json, probe.in.max_attempts)
     IN probe' = [probe EXCEPT !.out = {[payload |-> payload,
                                         init |-> init(1, 1, payload)]}]
  /\ UNCHANGED <<runs, fs, calls>>

InputSpec == InitInput /\ [][ApplyInput]_vars

\* ------------------------------------ collect_feedback, applied on its own
\* what open/read of the output file gives: {} when it raises, else the
\* content, which may be the empty text
FeedbackFiles == {{}, {""}, {"out1"}, {"out2"}}
CollectInputs ==
  [decision : {"retry", "success", "escalate"}, attempt : 1..MaxProbe,
   max_attempts : 1..MaxProbe,
   validation_result : {[success |-> "true", data |-> [valid |-> "false", errors |-> "A"]],
                        [success |-> "false", error |-> "boom", stdout |-> ""]},
   file : FeedbackFiles]

InitCollect ==
  /\ runs = <<>>
  /\ fs = <<>>
  /\ calls = <<>>
  /\ probe \in [in : CollectInputs, out : {{}}]

ApplyCollectFeedback ==
  /\ probe.out = {}
  /\ probe' = [probe EXCEPT !.out =
                 {collect_feedback([decision |-> probe.in.decision],
                                   [max_attempts |-> probe.in.max_attempts],
                                   [attempt |-> probe.in.attempt],
                                   [validation_result |-> probe.in.validation_result],
                                   probe.in.file)}]
  /\ UNCHANGED <<runs, fs, calls>>

CollectSpec == InitCollect /\ [][ApplyCollectFeedback]_vars

\* ---------------------------------------------- decide, applied on its own
DecideInputs ==
  [valid : {"true", "false"}, attempt : 0..MaxProbe,
   max_attempts : (-1)..MaxProbe, validation_result : {[errors |-> "A"]}]

InitDecide ==
  /\ runs = <<>>
  /\ fs = <<>>
  /\ calls = <<>>
  /\ probe \in [in : DecideInputs, out : {{}}]

ApplyDecide ==
  /\ probe.out = {}
  /\ probe' = [probe EXCEPT !.out =
                 {decide([max_attempts |-> probe.in.max_attempts],
                         [attempt |-> probe.in.attempt],
                         [valid |-> probe.in.valid,
                          validation_result |-> probe.in.validation_result])}]
  /\ UNCHANGED <<runs, fs, calls>>

DecideSpec == InitDecide /\ [][ApplyDecide]_vars

\* --------------------------------------- run_nu_script, applied on its own
\* largest exit status the tool process is given
MaxExit == 2

\* returncode: 0, a positive status, or minus the signal that killed it
ToolExitCodes == {-9} \cup 0..MaxExit
ToolStderrs == {"", "boom"}
ToolStdouts ==
  {"", "plain text", "g_ok", "g_fail", "g_nosucc", "x_fail", "v_true",
   "v_nodata", "list"}
ToolProcs ==
  {[kind |-> "timeout"]}
  \cup {Exit(code, stderr, stdout) :
          code \in ToolExitCodes, stderr \in ToolStderrs, stdout \in ToolStdouts}

InitTool ==
  /\ runs = <<>>
  /\ fs = <<>>
  /\ calls = <<>>
  /\ probe \in [in : ToolProcs, out : {{}}]

ApplyRunNuScript ==
  /\ probe.out = {}
  /\ probe' = [probe EXCEPT !.out = {run_nu_script(probe.in)}]
  /\ UNCHANGED <<runs, fs, calls>>

ToolSpec == InitTool /\ [][ApplyRunNuScript]_vars

\* the steps of the workflow in the order their parents= declarations give
StepOrder ==
  <<"init", "generate", "execute", "validate", "decide", "collect_feedback",
    "retry_or_complete">>

\* ------------------------------------------------------------ properties
\* the runs of the chain client call c started
ChainOf(c) == {r \in RunIds : runs[r].call = c}
\* the max_attempts the caller of call c supplied
MaxAttemptsOf(c) == calls[c].payload["max_attempts"]
\* the position of run r in its chain: 1 for the run the client started
RECURSIVE Depth(_)
Depth(r) == IF runs[r].parent = 0 THEN 1 ELSE 1 + Depth(runs[r].parent)
Has(r, step) == step \in DOMAIN runs[r].out
Finished(r) == runs[r].pc = "done"
Result(r) == StepOutput(r, "retry_or_complete")
\* run r ended the chain: success, escalated, or a fatal failure
Terminal(r) ==
  \/ runs[r].pc = "failed"
  \/ Finished(r) /\ Result(r)["status"] \in {"success", "escalated"}
\* the validator of run r said valid:false
ValidatedFalse(r) == Has(r, "validate") /\ StepOutput(r, "validate")["valid"] = "false"
GenRequest(r) == Only(runs[r].gen_request)

\* C1: for max_attempts >= 1, the chain of runs one client call starts
\* eventually reaches a terminal outcome (success, escalated or a fatal
\* failure), whatever the validator answers.  (max_attempts is kept within
\* the number of runs explored, so that a chain that stops after
\* max_attempts entries is never cut short.)
C1_ChainTerminates ==
  (\E r \in ChainOf(1) : /\ runs[r].parent = 0 /\ runs[r].pc = "init"
                          /\ MaxAttemptsOf(1) >= 1)
    ~> (\E r \in ChainOf(1) : Terminal(r))

\* C2: over a run and the retries it dispatches, the number of Generate
\* invocations never exceeds the caller's max_attempts (>= 1).
C2_GenerateBounded ==
  \A c \in 1..Len(calls) :
    MaxAttemptsOf(c) >= 1 =>
      Cardinality({r \in ChainOf(c) : runs[r].gen_request # {}}) <= MaxAttemptsOf(c)

\* C3: when the validator said valid:false at every attempt 1..max_attempts,
\* the entry of attempt max_attempts ends with status escalated,
\* attempts = max_attempts and last_error = that attempt's validation result.
C3_ExhaustionEscalates ==
  \A c \in 1..Len(calls) : \A r \in ChainOf(c) :
    ( /\ MaxAttemptsOf(c) >= 1
      /\ Depth(r) = MaxAttemptsOf(c)
      /\ Finished(r)
      /\ \A q \in ChainOf(c) : Depth(q) <= Depth(r) => ValidatedFalse(q) )
    => /\ Result(r)["status"] = "escalated"
       /\ Result(r)["attempts"] = MaxAttemptsOf(c)
       /\ Result(r)["last_error"] = StepOutput(r, "validate")["validation_result"]

\* C4: when the validator says valid:true at attempt k of the chain (after
\* k-1 failed validations), that entry ends with status success and
\* attempts = k, and the chain has no later entry (no further Generate).
C4_SuccessAtAttemptK ==
  \A r \in RunIds :
    (Finished(r) /\ StepOutput(r, "validate")["valid"] = "true")
    => /\ Result(r)["status"] = "success"
       /\ Result(r)["attempts"] = Depth(r)
       /\ \A q \in ChainOf(runs[r].call) : Depth(q) <= Depth(r)

\* C5: what the blocking client call returns has status success or
\* escalated, never retrying.
C5_CallerSeesTerminalStatus ==
  \A c \in 1..Len(calls) :
    (calls[c].returned # {} /\ "status" \in DOMAIN Only(calls[c].returned))
    => Only(calls[c].returned)["status"] \in {"success", "escalated"}

\* C6: the Generate of a retry runs with the trace_id and the work_dir of
\* the attempt that failed.
C6_SameTraceAndWorkDir ==
  \A r \in RunIds :
    (runs[r].parent # 0 /\ runs[r].gen_request # {})
    => /\ GenRequest(r)["context"]["trace_id"]
            = GenRequest(runs[r].parent)["context"]["trace_id"]
       /\ GenRequest(r)["output_path"] = GenRequest(runs[r].parent)["output_path"]
       /\ StepOutput(r, "init")["work_dir"]
            = StepOutput(runs[r].parent, "init")["work_dir"]

\* C7: the i-th Generate invocation of a chain sends attempt "i/max_attempts"
\* and records attempt = i.
C7_AttemptCountsInvocations ==
  \A r \in RunIds :
    runs[r].gen_request # {}
    => /\ GenRequest(r)["attempt"] = <<Depth(r), MaxAttemptsOf(runs[r].call)>>
       /\ Has(r, "generate") => StepOutput(r, "generate")["attempt"] = Depth(r)

\* C8: the Generate request carries "Initial generation" at attempt 1 and
\* only there; at an attempt reached by a retry it carries the feedback
\* CollectFeedback synthesized in the attempt before.
C8_FeedbackThreaded ==
  \A r \in RunIds :
    runs[r].gen_request # {}
    => IF runs[r].parent = 0
         THEN GenRequest(r)["feedback"] = InitialFeedback
         ELSE /\ GenRequest(r)["feedback"] # InitialFeedback
              /\ {GenRequest(r)["feedback"]}
                   = StepOutput(runs[r].parent, "collect_feedback")["feedback"]

\* what the feedback of an attempt is made from: the attempt's counter and
\* ceiling, its validation result, and what its execution wrote
FeedbackSource(r) ==
  <<StepOutput(r, "generate")["attempt"], StepOutput(r, "init")["max_attempts"],
    StepOutput(r, "validate")["validation_result"], runs[r].wrote>>
FeedbackFrom(source) ==
  collect_feedback([decision |-> "retry"], [max_attempts |-> source[2]],
                   [attempt |-> source[1]], [validation_result |-> source[3]],
                   source[4])

\* C9: the feedback synthesized in attempt k, and the feedback the Generate
\* of attempt k+1 is given, are determined by attempt k's own validation
\* result and execution output (with its attempt counter): the synthesized
\* text is FeedbackFrom of them, the file read is the one this attempt's
\* execution wrote, and two retries whose failed attempts agree on them are
\* given the same feedback whatever happened before.
C9_FeedbackFromLastAttemptOnly ==
  /\ \A r \in RunIds :
       (Has(r, "collect_feedback") /\ StepOutput(r, "decide")["decision"] = "retry")
       => /\ StepOutput(r, "collect_feedback")["feedback"]
               = FeedbackFrom(FeedbackSource(r))["feedback"]
          /\ runs[r].read = {runs[r].wrote}
  /\ \A q1, q2 \in RunIds :
       ( /\ runs[q1].parent # 0 /\ runs[q2].parent # 0
         /\ runs[q1].gen_request # {} /\ runs[q2].gen_request # {}
         /\ FeedbackSource(runs[q1].parent) = FeedbackSource(runs[q2].parent) )
       => GenRequest(q1)["feedback"] = GenRequest(q2)["feedback"]

\* a third attempt is being generated after two failed attempts that wrote
\* different outputs and got different validation results, the second one
\* having written nothing
C9_Witness ==
  \E q \in RunIds :
    /\ Depth(q) = 3 /\ runs[q].gen_request # {}
    /\ LET p2 == runs[q].parent
           p1 == runs[p2].parent
       IN /\ runs[p1].wrote # {} /\ runs[p2].wrote = {}
          /\ StepOutput(p1, "validate")["validation_result"]
               # StepOutput(p2, "validate")["validation_result"]
          /\ StepOutput(p2, "collect_feedback")["feedback"] # {}

\* C10: decide answers success when valid is true (also when attempt >=
\* max_attempts), else escalate when attempt >= max_attempts, else retry.
C10_DecisionPolicy ==
  probe.out # {} =>
    LET decision == Only(probe.out)["decision"]
    IN /\ decision \in {"success", "escalate", "retry"}
       /\ decision = "success" <=> probe.in.valid = "true"
       /\ decision = "escalate"
            <=> (probe.in.valid # "true" /\ probe.in.attempt >= probe.in.max_attempts)
       /\ decision = "retry"
            <=> (probe.in.valid # "true" /\ probe.in.attempt < probe.in.max_attempts)

\* decide has answered success for a valid result of the last allowed attempt
C10_Witness ==
  /\ probe.out # {}
  /\ probe.in.valid = "true"
  /\ probe.in.attempt >= probe.in.max_attempts
  /\ probe.in.max_attempts >= 1
  /\ Only(probe.out)["decision"] = "success"

\* C11: every terminal result (success or escalated) has
\* 1 <= attempts <= max_attempts, whatever max_attempts the caller supplied
\* (0 and negative values included).
C11_AttemptsWithinBounds ==
  \A r \in RunIds :
    (Finished(r) /\ Result(r)["status"] \in {"success", "escalated"})
    => /\ 1 <= Result(r)["attempts"]
       /\ Result(r)["attempts"] <= MaxAttemptsOf(runs[r].call)

\* C12: a Generate request is only sent for an attempt number that is at
\* most max_attempts.
C12_GenerateWithinCeiling ==
  \A r \in RunIds :
    runs[r].gen_request # {}
    => GenRequest(r)["attempt"][1] <= GenRequest(r)["attempt"][2]

\* what run_nu_script gave the `step` step of run r, when it returned
ToolReturned(r, step) ==
  step \in DOMAIN runs[r].tool /\ "ret" \in DOMAIN runs[r].tool[step]
ToolResult(r, step) == runs[r].tool[step].ret
\* the generator of run r reported failure: success false or absent
GeneratorFailed(r) ==
  /\ ToolReturned(r, "generate")
  /\ IsDict(ToolResult(r, "generate"))
  /\ Get(ToolResult(r, "generate"), "success", "false") = "false"

\* C13: when the generator reports failure (success false or absent), the
\* run has failed at once: no later step has run or will run, it spawned no
\* retry, it has no success or escalated result, and its client gets the
\* failure.
C13_GeneratorFailureIsFatal ==
  \A r \in RunIds :
    GeneratorFailed(r)
    => /\ runs[r].pc = "failed"
       /\ DOMAIN runs[r].out = {"init"}
       /\ DOMAIN runs[r].tool = {"generate"}
       /\ runs[r].spawned = 0
       /\ \A q \in RunIds : runs[q].parent # r
       /\ \A c \in 1..Len(calls) :
            (calls[c].run = r /\ calls[c].returned # {})
            => "raised" \in DOMAIN Only(calls[c].returned)

\* a generator that exited 0 and printed JSON without a success key, and
\* the client of its run has been given the failure
C13_Witness ==
  \E c \in 1..Len(calls) :
    /\ calls[c].run \in RunIds
    /\ GeneratorFailed(calls[c].run)
    /\ "success" \notin DOMAIN ToolResult(calls[c].run, "generate")
    /\ calls[c].returned = {[raised |-> "Generation failed"]}

\* C14: when run_nu_script returned to the execute step, whatever the
\* executor reported, the step completed with that result and validation
\* is the step that follows: it is pending or its tool has been invoked.
C14_ValidateFollowsExecute ==
  \A r \in RunIds :
    ToolReturned(r, "execute")
    => /\ Has(r, "execute")
       /\ StepOutput(r, "execute")["execution_result"] = ToolResult(r, "execute")
       /\ \/ runs[r].pc = "validate"
          \/ "validate" \in DOMAIN runs[r].tool

\* the executor exited nonzero and the validator has been invoked and has
\* answered
C14_Witness ==
  \E r \in RunIds :
    /\ ToolReturned(r, "execute")
    /\ ToolResult(r, "execute") = [success |-> "false", error |-> "boom", stdout |-> ""]
    /\ ToolReturned(r, "validate")
    /\ Has(r, "validate")

\* the validator of run r answered with an object that has no data.valid
\* flag: no data key, or a data object without valid
NoValidFlag(r) ==
  /\ ToolReturned(r, "validate")
  /\ IsDict(ToolResult(r, "validate"))
  /\ \/ "data" \notin DOMAIN ToolResult(r, "validate")
     \/ /\ IsDict(ToolResult(r, "validate")["data"])
        /\ "valid" \notin DOMAIN ToolResult(r, "validate")["data"]

\* C15: a validator response without a data.valid flag is recorded as
\* valid = false, decide answers retry or escalate for it, and the entry
\* does not end with status success.
C15_MissingValidIsFalse ==
  \A r \in RunIds :
    NoValidFlag(r)
    => /\ Has(r, "validate")
       /\ StepOutput(r, "validate")["valid"] = "false"
       /\ Has(r, "decide")
            => StepOutput(r, "decide")["decision"] \in {"retry", "escalate"}
       /\ Finished(r) => Result(r)["status"] # "success"

\* the validator exited 0 with a data object that has no valid key, and
\* decide has answered
C15_Witness ==
  \E r \in RunIds :
    /\ NoValidFlag(r)
    /\ "data" \in DOMAIN ToolResult(r, "validate")
    /\ Has(r, "decide")

\* C16: when the tool process exceeds the timeout, run_nu_script returns
\* a result with success false and error "timeout"; it does not raise.
C16_TimeoutIsStructured ==
  (probe.in.kind = "timeout" /\ probe.out # {})
  => /\ "ret" \in DOMAIN Only(probe.out)
     /\ Only(probe.out).ret["success"] = "false"
     /\ Only(probe.out).ret["error"] = "timeout"

\* C18: on a nonzero exit status run_nu_script returns exactly success
\* false, error = stderr when stderr is not empty and "Exit code: N"
\* otherwise, and stdout as the process printed it; stdout is not parsed,
\* also when it is JSON.
C18_NonzeroExitResult ==
  (probe.in.kind = "exit" /\ probe.in.code # 0 /\ probe.out # {})
  => probe.out =
       {[ret |-> [success |-> "false",
                  error |-> IF probe.in.stderr = ""
                              THEN "Exit code: " \o ToString(probe.in.code)
                              ELSE probe.in.stderr,
                  stdout |-> probe.in.stdout]]}

\* a process that exited 1 with an empty stderr and JSON on stdout saying
\* success true: the result is the failure with the generic message
C18_Witness ==
  /\ probe.in = Exit(1, "", "g_ok")
  /\ probe.out = {[ret |-> [success |-> "false", error |-> "Exit code: 1",
                            stdout |-> "g_ok"]]}

\* C19: on a zero exit status run_nu_script returns the parsed JSON of
\* stdout as it is when stdout parses, and {success: true, raw_output:
\* stdout} when it does not.
C19_ZeroExitResult ==
  (probe.in.kind = "exit" /\ probe.in.code = 0 /\ probe.out # {})
  => probe.out =
       {[ret |-> IF "notjson" \in DOMAIN JsonLoads(probe.in.stdout)
                   THEN [success |-> "true", raw_output |-> probe.in.stdout]
                   ELSE JsonLoads(probe.in.stdout)]}

\* a process that exited 0 and printed {success: false, ...}: the result is
\* that failure
C19_Witness ==
  /\ probe.in.kind = "exit" /\ probe.in.code = 0
  /\ probe.in.stdout = "g_fail"
  /\ probe.out = {[ret |-> [success |-> "false", error |-> "gen error"]]}

\* C17: a run only fails at init (workspace allocation) or at generate: a
\* run that got past generate never fails, whatever its tools, its
\* input_json and its output file are.
C17_OnlyInitAndGenerateFail ==
  \A r \in RunIds :
    runs[r].pc = "failed" => ~Has(r, "generate")

\* C20: the result of every run that completed retry_or_complete has one of
\* the statuses success, escalated, retrying, and it is the one of the
\* run's decide decision (success, escalate, retry in that order); a run
\* is finished exactly when it has that result.
C20_StatusMatchesDecision ==
  \A r \in RunIds :
    /\ Finished(r) <=> Has(r, "retry_or_complete")
    /\ Has(r, "retry_or_complete")
       => LET status == Result(r)["status"]
              decision == StepOutput(r, "decide")["decision"]
          IN /\ status \in {"success", "escalated", "retrying"}
             /\ status = "success" <=> decision = "success"
             /\ status = "escalated" <=> decision = "escalate"
             /\ status = "retrying" <=> decision = "retry"

\* a run that answered retrying, and the run it spawned has answered
\* success
C20_Witness ==
  \E r \in RunIds :
    /\ Finished(r) /\ Result(r)["status"] = "success"
    /\ runs[r].parent \in RunIds
    /\ Finished(runs[r].parent)
    /\ Result(runs[r].parent)["status"] = "retrying"
    /\ StepOutput(runs[r].parent, "decide")["decision"] = "retry"

\* run r decided to retry and its collect_feedback step found no readable
\* output file
RetryWithoutFile(r) ==
  /\ Has(r, "collect_feedback")
  /\ StepOutput(r, "decide")["decision"] = "retry"
  /\ runs[r].read = {{}}
\* the lines of the feedback text run r synthesized
FeedbackLines(r) == Only(StepOutput(r, "collect_feedback")["feedback"])

\* C21: when the output file cannot be read on a retry decision,
\* collect_feedback still returns a text: the attempt counter, the dump of
\* the validation result and the fix instruction, with no output section;
\* the run does not fail, and when it has finished it has spawned the retry.
C21_FeedbackWithoutOutputFile ==
  \A r \in RunIds :
    RetryWithoutFile(r)
    => /\ StepOutput(r, "collect_feedback")["feedback"] # {}
       /\ FeedbackLines(r)[1]
            = [text |-> "ATTEMPT FAILED.",
               attempt |-> StepOutput(r, "generate")["attempt"],
               max_attempts |-> StepOutput(r, "init")["max_attempts"]]
       /\ \E i \in DOMAIN FeedbackLines(r) :
            FeedbackLines(r)[i]
              = [text |-> "json.dumps",
                 of |-> StepOutput(r, "validate")["validation_result"]]
       /\ FeedbackLines(r)[Len(FeedbackLines(r))]
            = [text |-> "FIX THE NUSHELL SCRIPT TO SATISFY THE CONTRACT."]
       /\ \A i \in DOMAIN FeedbackLines(r) :
            FeedbackLines(r)[i]["text"] # "OUTPUT PRODUCED:"
       /\ runs[r].pc \in {"retry_or_complete", "done"}
       /\ Finished(r)
            => /\ runs[r].spawned = 1
               /\ \E q \in RunIds :
                    /\ runs[q].parent = r
                    /\ Only(runs[q].input["_retry_state"]["feedback"])
                         = FeedbackLines(r)

\* an executor that wrote no output file, a retry decision, and the retry
\* has been spawned
C21_Witness ==
  \E r \in RunIds :
    /\ RetryWithoutFile(r)
    /\ runs[r].wrote = {}
    /\ Finished(r)
    /\ \E q \in RunIds : runs[q].parent = r

\* C22: a success result is exactly status success, the output_path of the
\* entry's execute step, the tool_path of its generate step and the number
\* of attempts made; an escalated result is exactly status escalated, the
\* fixed message, the number of attempts made and, as last_error, the
\* validation result of the same entry.
C22_TerminalResultFields ==
  \A r \in RunIds :
    Finished(r)
    => /\ Result(r)["status"] = "success"
          => Result(r) = [status |-> "success",
                          output_path |-> StepOutput(r, "execute")["output_path"],
                          tool_path |-> StepOutput(r, "generate")["tool_path"],
                          attempts |-> Depth(r)]
       /\ Result(r)["status"] = "escalated"
          => Result(r) = [status |-> "escalated",
                          message |-> EscalateMessage,
                          attempts |-> Depth(r),
                          last_error |-> StepOutput(r, "validate")["validation_result"]]

\* the result of step `step` of run r as the run produces it alone: from
\* its own input, its own id and directory, the answers its own tools gave
\* and the file its own executor wrote
AloneOutput(r, step) ==
  LET init_data == init(r, StepOutput(r, "init")["work_dir"], runs[r].input)
      gen_data == generate(init_data, runs[r].tool["generate"]).ret
      exec_data == execute(init_data, runs[r].input, runs[r].tool["execute"]).ret
      val_data == validate(runs[r].tool["validate"]).ret
      decide_data == decide(init_data, gen_data, val_data)
  IN CASE step = "init" -> init_data
       [] step = "generate" -> gen_data
       [] step = "execute" -> exec_data
       [] step = "validate" -> val_data
       [] step = "decide" -> decide_data
       [] step = "collect_feedback" ->
            collect_feedback(decide_data, init_data, gen_data, val_data,
                             runs[r].wrote)
       [] step = "retry_or_complete" ->
            retry_or_complete(decide_data, exec_data, gen_data)

\* C23: runs whose steps interleave in any order have distinct trace ids
\* and work_dirs, each starts its own attempt counter, the output file of
\* a run's directory is the one its own executor wrote, and every step
\* result of a run is the one the run produces alone.
C23_RunsIsolated ==
  \A r \in RunIds :
    /\ \A step \in DOMAIN runs[r].out : StepOutput(r, step) = AloneOutput(r, step)
    /\ Has(r, "init")
       => /\ \A q \in RunIds \ {r} :
               Has(q, "init")
               => /\ StepOutput(q, "init")["work_dir"] # StepOutput(r, "init")["work_dir"]
                  /\ StepOutput(q, "init")["trace_id"] # StepOutput(r, "init")["trace_id"]
          /\ fs[StepOutput(r, "init")["work_dir"]] = runs[r].wrote
    /\ runs[r].read \subseteq {runs[r].wrote}

\* the runs of two client calls have both synthesized feedback from the
\* different files their executors wrote, before either has finished
C23_Witness ==
  \E r, q \in RunIds :
    /\ runs[r].call # runs[q].call
    /\ runs[r].pc = "retry_or_complete" /\ runs[q].pc = "retry_or_complete"
    /\ runs[r].wrote = {"out1"} /\ runs[q].wrote = {"out2"}
    /\ runs[r].read = {{"out1"}} /\ runs[q].read = {{"out2"}}

\* C24: when mkdtemp fails in init the run has failed: it has no step
\* result, sent no Generate request, invoked no tool, spawned no retry, and
\* what its client gets is the failure.
C24_WorkspaceFailureIsFatal ==
  \A r \in RunIds :
    runs[r].error = "OSError"
    => /\ runs[r].pc = "failed"
       /\ DOMAIN runs[r].out = {}
       /\ runs[r].gen_request = {}
       /\ DOMAIN runs[r].tool = {}
       /\ runs[r].spawned = 0
       /\ \A q \in RunIds : runs[q].parent # r
       /\ \A c \in 1..Len(calls) :
            (calls[c].run = r /\ calls[c].returned # {})
            => calls[c].returned = {[raised |-> "OSError"]}

\* mkdtemp failed in the run of a client call and the client has been given
\* the failure
C24_Witness ==
  \E c \in 1..Len(calls) :
    /\ calls[c].run \in RunIds
    /\ runs[calls[c].run].error = "OSError"
    /\ runs[calls[c].run].pc = "failed"
    /\ calls[c].returned = {[raised |-> "OSError"]}

\* C25: a workflow input without max_attempts makes the loop use 5; the
\* three client functions submit the caller's contract, task, input_json and
\* max_attempts as given, with max_attempts 5 (and input_json "{}") when the
\* caller gives none.
C25_DefaultMaxAttempts ==
  probe.out # {}
  => LET given == probe.in
         payload == Only(probe.out).payload
         init_data == Only(probe.out).init
     IN /\ init_data["max_attempts"]
             = IF given.max_attempts = {} THEN 5 ELSE Only(given.max_attempts)
        /\ given.via \in ClientFunctions
           => /\ DOMAIN payload = {"contract", "task", "input_json", "max_attempts"}
              /\ payload["contract"] = given.contract
              /\ payload["task"] = given.task
              /\ payload["input_json"]
                   = IF given.input_json = {} THEN "{}" ELSE Only(given.input_json)
              /\ payload["max_attempts"]
                   = IF given.max_attempts = {} THEN 5 ELSE Only(given.max_attempts)

\* a run started by an event whose payload has no max_attempts: init has
\* taken 5
C25_Witness ==
  /\ probe.out # {}
  /\ probe.in.via = "contract:run"
  /\ probe.in.max_attempts = {}
  /\ "max_attempts" \notin DOMAIN Only(probe.out).payload
  /\ Only(probe.out).init["max_attempts"] = 5

\* the steps of run record `run` that have a result are the first n of the
\* order, and the step it is at is the next one (or it is over)
InOrder(run) ==
  \E n \in 0..Len(StepOrder) :
    /\ DOMAIN run.out = {StepOrder[i] : i \in 1..n}
    /\ \/ run.pc = "failed" /\ n < Len(StepOrder)
       \/ run.pc = "done" /\ n = Len(StepOrder)
       \/ n < Len(StepOrder) /\ run.pc = StepOrder[n + 1]

\* C26: in every run the steps that have produced a result are an initial
\* part of init, generate, execute, validate, decide, collect_feedback,
\* retry_or_complete and the step that runs next is the one after them; a
\* transition adds at most the result of that one step, invokes at most
\* its tool, and leaves every result already produced as it is.
C26_StepsInOrder ==
  [][ \A r \in DOMAIN runs' :
        /\ InOrder(runs'[r])
        /\ r \in RunIds
           => /\ \A step \in DOMAIN runs[r].out :
                   /\ step \in DOMAIN runs'[r].out
                   /\ runs'[r].out[step] = runs[r].out[step]
              /\ DOMAIN runs'[r].out \ DOMAIN runs[r].out \subseteq {runs[r].pc}
              /\ DOMAIN runs'[r].tool \ DOMAIN runs[r].tool \subseteq {runs[r].pc}
              /\ \A step \in DOMAIN runs[r].tool :
                   /\ step \in DOMAIN runs'[r].tool
                   /\ runs'[r].tool[step] = runs[r].tool[step]
              /\ runs[r].pc \in {"done", "failed"} => runs'[r].pc = runs[r].pc
    ]_vars

\* a run that went through its seven steps and spawned a retry
C26_Witness ==
  \E r \in RunIds :
    /\ runs[r].pc = "done"
    /\ DOMAIN runs[r].out = {StepOrder[i] : i \in 1..Len(StepOrder)}
    /\ runs[r].spawned = 1

\* the first run of the chain run r belongs to
RECURSIVE Root(_)
Root(r) == IF runs[r].parent = 0 THEN r ELSE Root(runs[r].parent)

\* C27: the chain of spawned runs behaves as a loop of at most max_attempts
\* iterations in one process: its n-th entry is iteration n, n is at most
\* max_attempts (>= 1), the Generate request of the entry carries attempt
\* n/max_attempts, the trace_id and the tool path of the first entry and the
\* feedback of iteration n-1 ("Initial generation" for n = 1), and a
\* terminal result reports n attempts.
C27_SameAsBoundedLoop ==
  \A r \in RunIds :
    MaxAttemptsOf(runs[r].call) >= 1
    => /\ Depth(r) <= MaxAttemptsOf(runs[r].call)
       /\ runs[r].gen_request # {}
          => /\ GenRequest(r)["attempt"] = <<Depth(r), MaxAttemptsOf(runs[r].call)>>
             /\ GenRequest(r)["context"]["trace_id"]
                  = StepOutput(Root(r), "init")["trace_id"]
             /\ GenRequest(r)["output_path"]
                  = PathJoin(StepOutput(Root(r), "init")["work_dir"], "tool.nu")
             /\ GenRequest(r)["feedback"]
                  = IF Depth(r) = 1 THEN InitialFeedback
                    ELSE Only(StepOutput(runs[r].parent, "collect_feedback")["feedback"])
       /\ (Finished(r) /\ Result(r)["status"] \in {"success", "escalated"})
          => Result(r)["attempts"] = Depth(r)

\* the places of the lines of `lines` whose text is `text`
LinesWith(lines, text) == {i \in DOMAIN lines : lines[i]["text"] = text}

\* C28: the feedback of a retry decision is, in this order: the line with
\* the attempt/max counter first, the label and the dump of the whole
\* validation result, the output content exactly when the file could be
\* read (one section, after the dump and before the instruction), and the
\* fix instruction last.
C28_FeedbackOrder ==
  (probe.out # {} /\ probe.in.decision = "retry")
  => /\ Only(probe.out)["feedback"] # {}
     /\ LET lines == Only(Only(probe.out)["feedback"])
            dumps == LinesWith(lines, "json.dumps")
            outputs == LinesWith(lines, "OUTPUT PRODUCED:")
            fixes == LinesWith(lines, "FIX THE NUSHELL SCRIPT TO SATISFY THE CONTRACT.")
        IN /\ lines[1] = [text |-> "ATTEMPT FAILED.", attempt |-> probe.in.attempt,
                          max_attempts |-> probe.in.max_attempts]
           /\ Cardinality(dumps) = 1
           /\ lines[Only(dumps)] = [text |-> "json.dumps",
                                    of |-> probe.in.validation_result]
           /\ LinesWith(lines, "CONTRACT ERRORS:") = {Only(dumps) - 1}
           /\ fixes = {Len(lines)}
           /\ 1 < Only(dumps) /\ Only(dumps) < Len(lines)
           /\ IF probe.in.file = {}
                THEN outputs = {}
                ELSE /\ Cardinality(outputs) = 1
                     /\ lines[Only(outputs)]
                          = [text |-> "OUTPUT PRODUCED:", content |-> Only(probe.in.file)]
                     /\ Only(dumps) < Only(outputs)
                     /\ Only(outputs) < Len(lines)

\* feedback has been synthesized with the content of a readable output file
C28_Witness ==
  /\ probe.out # {}
  /\ probe.in.decision = "retry"
  /\ probe.in.file = {"out1"}
  /\ Len(Only(Only(probe.out)["feedback"])) = 7

\* the runs run r spawned
Children(r) == {q \in RunIds : runs[q].parent = r}

\* C29: a run spawns at most one workflow, it has spawned one exactly when
\* it has finished with a retry decision, and its collect_feedback step
\* gives a non-empty text for a retry decision and none for the others.
C29_SpawnIffRetry ==
  \A r \in RunIds :
    /\ runs[r].spawned <= 1
    /\ Cardinality(Children(r)) = runs[r].spawned
    /\ runs[r].spawned = 1
         <=> (Finished(r) /\ StepOutput(r, "decide")["decision"] = "retry")
    /\ Has(r, "collect_feedback")
       => IF StepOutput(r, "decide")["decision"] = "retry"
            THEN /\ StepOutput(r, "collect_feedback")["feedback"] # {}
                 /\ Len(Only(StepOutput(r, "collect_feedback")["feedback"])) > 0
            ELSE StepOutput(r, "collect_feedback")["feedback"] = {}

\* a run finished with a retry decision and spawned one run, which
\* finished with a success decision and spawned none
C29_Witness ==
  /\ \E r \in RunIds :
       /\ Finished(r) /\ StepOutput(r, "decide")["decision"] = "retry"
       /\ Cardinality(Children(r)) = 1
       /\ \E q \in Children(r) :
            /\ Finished(q) /\ StepOutput(q, "decide")["decision"] = "success"
            /\ Children(q) = {}

\* C30: whatever the generator answers, the attempt and the tool_path of
\* the generate step's result are the loop's own: the attempt init gave
\* plus one, and tool.nu in the run's work_dir.
C30_GeneratorCannotOverride ==
  \A r \in RunIds :
    Has(r, "generate")
    => /\ StepOutput(r, "generate")["attempt"] = StepOutput(r, "init")["attempt"] + 1
       /\ StepOutput(r, "generate")["tool_path"]
            = PathJoin(StepOutput(r, "init")["work_dir"], "tool.nu")

\* what the validator of run r reported as data.valid: {} when its answer
\* has no such flag
ReportedValid(r) ==
  IF /\ ToolReturned(r, "validate")
     /\ IsDict(ToolResult(r, "validate"))
     /\ "data" \in DOMAIN ToolResult(r, "validate")
     /\ IsDict(ToolResult(r, "validate")["data"])
     /\ "valid" \in DOMAIN ToolResult(r, "validate")["data"]
    THEN {ToolResult(r, "validate")["data"]["valid"]}
    ELSE {}

\* C31: a run ends with status success only if its own validator reported
\* data.valid = true, and with status escalated only if its validator did
\* not report true and the attempt its decide step read is >= max_attempts.
C31_SuccessOnlyIfValid ==
  \A r \in RunIds :
    Finished(r)
    => /\ Result(r)["status"] = "success" => ReportedValid(r) = {"true"}
       /\ Result(r)["status"] = "escalated"
          => /\ ReportedValid(r) # {"true"}
             /\ StepOutput(r, "generate")["attempt"]
                  >= StepOutput(r, "init")["max_attempts"]

\* the validator process of run r failed at the transport level:
\* run_nu_script gave the result it builds for a nonzero exit
ValidatorTransportFailure(r) ==
  /\ ToolReturned(r, "validate")
  /\ DOMAIN ToolResult(r, "validate") = {"success", "error", "stdout"}
  /\ ToolResult(r, "validate")["success"] = "false"

\* C32: a validator that exits nonzero counts as one failed validation of
\* the attempt: the run does not fail, valid is false, decide answers retry
\* when the attempt (the entry's place in its chain) is below max_attempts
\* and escalate otherwise, with the failure result as last_error, and the
\* entry never ends with success.
C32_ValidatorFailureConsumesAttempt ==
  \A r \in RunIds :
    ValidatorTransportFailure(r)
    => /\ runs[r].pc # "failed"
       /\ Has(r, "validate")
       /\ StepOutput(r, "validate")
            = [valid |-> "false", validation_result |-> ToolResult(r, "validate")]
       /\ Has(r, "decide")
          => IF Depth(r) < MaxAttemptsOf(runs[r].call)
               THEN StepOutput(r, "decide")["decision"] = "retry"
               ELSE /\ StepOutput(r, "decide")["decision"] = "escalate"
                    /\ StepOutput(r, "decide")["last_error"] = ToolResult(r, "validate")
       /\ Finished(r) => Result(r)["status"] # "success"

\* C33: the input of a spawned retry is the caller's contract, task,
\* input_json and max_attempts as the caller gave them, and one
\* _retry_state that has exactly the attempt the spawning entry completed
\* (its place in the chain), the feedback it synthesized, and its trace_id
\* and work_dir.
C33_RetryPayload ==
  \A q \in RunIds :
    (runs[q].parent # 0 /\ runs[q].parent \in RunIds)
    => LET p == runs[q].parent
       IN /\ DOMAIN runs[q].input
               = {"contract", "task", "input_json", "max_attempts", "_retry_state"}
          /\ \A k \in {"contract", "task", "input_json", "max_attempts"} :
               runs[q].input[k] = calls[runs[q].call].payload[k]
          /\ runs[q].input["_retry_state"]
               = [attempt |-> Depth(p),
                  feedback |-> StepOutput(p, "collect_feedback")["feedback"],
                  trace_id |-> StepOutput(p, "init")["trace_id"],
                  work_dir |-> StepOutput(p, "init")["work_dir"]]

====
